---- MODULE Spec2Model ----
(***************************************************************************)
(* A model of utils/utils.go of leodotcloud/plugin-manager:                *)
(*   UpdateCNIConfigByKeywords, GetBridgeInfo, GetLocalNetworksAndRouters  *)
(*   and GetLocalNetworksAndRoutersFromMetadata.                           *)
(*                                                                         *)
(* Go strings are sequences of one-character strings, so that HasPrefix,   *)
(* SplitN and TrimSpace are computed and not assumed.  An interface{}      *)
(* value is a record [t, v]: t is the dynamic type ("str", "map", "num",   *)
(* "list", "nil"), v the value; a map[string]interface{} is a function     *)
(* from key names to such records.                                         *)
(***************************************************************************)
EXTENDS Naturals, Sequences, FiniteSets, TLC

VARIABLES
    pc,           \* position of the operation being run
    networks,     \* []metadata.Network of the metadata snapshot
    host,         \* metadata.Host of the metadata snapshot
    services,     \* []metadata.Service of the metadata snapshot
    calls,        \* the fetches issued on the metadata client, with their errors
    ret,          \* what GetLocalNetworks... returned
    config,       \* the argument of UpdateCNIConfigByKeywords
    once,         \* UpdateCNIConfigByKeywords(config, host)
    twice,        \* UpdateCNIConfigByKeywords(once, host)
    network,      \* the argument of GetBridgeInfo
    remaining,    \* file names of cniConfig the range loop has not yet visited
    iterated,     \* file names in the order the range loop visited them
    bridge,       \* named result of GetBridgeInfo
    bridgeSubnet, \* named result of GetBridgeInfo
    given         \* history: config, or network, as it was when the call started

vars == <<pc, networks, host, services, calls, ret, config, once, twice,
          network, remaining, iterated, bridge, bridgeSubnet, given>>

----------------------------------------------------------------------------
(* Bounds of the model *)

MaxSuffix == 3      \* characters after the optional keyword in a string leaf
MaxDepth == 1       \* mapping levels wrapped around a configuration core
MaxFiles == 2       \* files of a cniConfig
MaxServices == 3    \* services of the snapshot
MaxContainers == 2  \* containers of the network service
MaxNetworks == 2    \* networks of the snapshot
MaxMeta == 1        \* containers and networks of the snapshot behind the client

----------------------------------------------------------------------------
(* Strings *)

hostLabelKeyword ==
    <<"_", "_", "h", "o", "s", "t", "_", "l", "a", "b", "e", "l", "_", "_">>

RancherBridge ==
    <<"r", "a", "n", "c", "h", "e", "r", "-", "b", "r", "i", "d", "g", "e">>

NetworkDriverService == "networkDriverService"

CniDriver == "cni-driver"

\* mutant: the prefix test left out
HasPrefix_Always(s, prefix) == TRUE

\* strings.HasPrefix
HasPrefix(s, prefix) ==
    /\ Len(s) >= Len(prefix)
    /\ SubSeq(s, 1, Len(prefix)) = prefix

\* strings.Index for a one-character separator: 0 when absent
RECURSIVE IndexFrom(_, _, _)
IndexFrom(s, c, i) ==
    IF i > Len(s) THEN 0
    ELSE IF s[i] = c THEN i
    ELSE IndexFrom(s, c, i + 1)

\* strings.SplitN(s, sep, 2)
SplitN2(s, sep) ==
    LET i == IndexFrom(s, sep, 1)
    IN  IF i = 0 THEN <<s>>
        ELSE <<SubSeq(s, 1, i - 1), SubSeq(s, i + 1, Len(s))>>

RECURSIVE TrimLeft(_)
TrimLeft(s) ==
    IF s # <<>> /\ Head(s) = " " THEN TrimLeft(Tail(s)) ELSE s

RECURSIVE TrimRight(_)
TrimRight(s) ==
    IF s # <<>> /\ s[Len(s)] = " " THEN TrimRight(SubSeq(s, 1, Len(s) - 1)) ELSE s

\* mutant: strings.TrimLeft in place of strings.TrimSpace
TrimSpace_LeftOnly(s) == TrimLeft(s)

\* strings.TrimSpace
TrimSpace(s) == TrimRight(TrimLeft(s))

\* host.Labels[label]: the zero value "" for a missing key
LabelValue(h, label) ==
    IF label \in DOMAIN h.Labels THEN h.Labels[label] ELSE <<>>

----------------------------------------------------------------------------
(* interface{} values *)

Str(s) == [t |-> "str", v |-> s]
Map(f) == [t |-> "map", v |-> f]
Num(n) == [t |-> "num", v |-> n]
List(l) == [t |-> "list", v |-> l]
Nil == [t |-> "nil", v |-> 0]

\* m[key] of a map[string]interface{}: nil for a missing key
Lookup(m, key) == IF key \in DOMAIN m THEN m[key] ELSE Nil

\* x.(string) with the ok result dropped: "" when x is not a string
AsString(x) == IF x.t = "str" THEN x.v ELSE <<>>

\* x.(map[string]interface{}) with the ok result dropped: the nil map
AsMap(x) == IF x.t = "map" THEN x.v ELSE <<>>

----------------------------------------------------------------------------
(* UpdateCNIConfigByKeywords *)

\* lines 28-36: what props[aKey] holds after a keyword string v
KeywordValue(v, h) ==
    LET splits == SplitN2(v, ":")
    IN  IF Len(splits) > 1
        THEN LET label == TrimSpace(splits[2])
                 labelValue == LabelValue(h, label)
             IN  IF labelValue # <<>> THEN labelValue ELSE <<>>
        ELSE <<>>

RECURSIVE UpdateCNIConfigByKeywords(_, _)
UpdateCNIConfigByKeywords(cfg, h) ==
    IF cfg.t # "map" THEN cfg
    ELSE Map([aKey \in DOMAIN cfg.v |->
                LET aValue == cfg.v[aKey]
                IN  IF aValue.t = "str"
                    THEN IF HasPrefix(aValue.v, hostLabelKeyword)
                         THEN Str(KeywordValue(aValue.v, h))
                         ELSE aValue
                    ELSE UpdateCNIConfigByKeywords(aValue, h)])

----------------------------------------------------------------------------
(* Inputs *)

SeqsUpTo(S, n) == UNION {[1..k -> S] : k \in 0..n}

Alphabet == {":", " ", "a"}

KeywordA == hostLabelKeyword \o <<":", "a">>

\* string leaves: with and without the keyword in front, then a look-alike
\* that lacks the last character of the keyword and one with a space in front
Strings ==
    {pre \o suf : pre \in {<<>>, hostLabelKeyword},
                  suf \in SeqsUpTo(Alphabet, MaxSuffix)}
    \cup {SubSeq(hostLabelKeyword, 1, Len(hostLabelKeyword) - 1) \o <<":", "a">>,
          <<" ">> \o KeywordA}

Leaves == {Str(s) : s \in Strings} \cup {Num(7), Nil, List(<<Str(KeywordA)>>)}

SideLeaves == {Str(<<"a">>), Str(KeywordA), Num(7)}

Cores ==
    Leaves
    \cup {Map([k \in {"k1"} |-> l]) : l \in Leaves}
    \cup {Map([k \in {"k1", "k2"} |-> IF k = "k1" THEN l ELSE m]) :
            l \in Leaves, m \in SideLeaves}

Wrap(node) ==
    Map([k \in {"k1", "k2"} |->
            IF k = "k1" THEN Str(hostLabelKeyword \o <<":", " ", "a", " ">>)
            ELSE node])

RECURSIVE Wrapped(_, _)
Wrapped(node, d) == IF d = 0 THEN node ELSE Wrap(Wrapped(node, d - 1))

Trees == {Wrapped(c, d) : c \in Cores, d \in 0..MaxDepth}

LabelA == <<"a">>
LabelB == <<"b">>
LabelAA == <<"a", " ", "a">>

\* host.Labels: "a" absent, empty, plain or itself a keyword string;
\* "b" absent or plain; "a a" plain
LabelMaps ==
    {[l \in D |-> IF l = LabelA THEN va ELSE IF l = LabelB THEN <<"w">> ELSE <<"z">>] :
        D \in {X \cup {LabelAA} : X \in SUBSET {LabelA, LabelB}},
        va \in {<<>>, <<"v">>, hostLabelKeyword \o <<":", "b">>}}

Host(labels) == [UUID |-> "h1", EnvironmentUUID |-> "e1", Labels |-> labels]

NoRet == [networks |-> <<>>, routers |-> <<>>, err |-> "nil", isNil |-> TRUE]

NoNetwork == [UUID |-> "n1", EnvironmentUUID |-> "e1", Metadata |-> <<>>]

----------------------------------------------------------------------------
(* Substitution applied to a tree, and again to what it returned *)

InitConfig ==
    /\ pc = "update"
    /\ config \in Trees
    /\ given = config
    /\ host \in {Host(l) : l \in LabelMaps}
    /\ once = Nil
    /\ twice = Nil
    /\ networks = <<>>
    /\ services = <<>>
    /\ calls = <<>>
    /\ ret = NoRet
    /\ network = NoNetwork
    /\ remaining = {}
    /\ iterated = <<>>
    /\ bridge = <<>>
    /\ bridgeSubnet = <<>>

\* the map is rewritten in place and returned: config is the caller's object
Update ==
    /\ pc = "update"
    /\ once' = UpdateCNIConfigByKeywords(config, host)
    /\ config' = once'
    /\ pc' = "updated"
    /\ UNCHANGED <<networks, host, services, calls, ret, twice, network,
                   remaining, iterated, bridge, bridgeSubnet, given>>

UpdateAgain ==
    /\ pc = "updated"
    /\ twice' = UpdateCNIConfigByKeywords(once, host)
    /\ config' = twice'
    /\ pc' = "updatedTwice"
    /\ UNCHANGED <<networks, host, services, calls, ret, once, network,
                   remaining, iterated, bridge, bridgeSubnet, given>>

NextConfig == Update \/ UpdateAgain

SpecConfig == InitConfig /\ [][NextConfig]_vars

----------------------------------------------------------------------------
(* Trees seen as sets of paths *)

RECURSIVE Paths(_)
Paths(node) ==
    IF node.t # "map" THEN {<<>>}
    ELSE {<<>>} \cup UNION {{<<k>> \o p : p \in Paths(node.v[k])} : k \in DOMAIN node.v}

RECURSIVE At(_, _)
At(node, p) == IF p = <<>> THEN node ELSE At(node.v[Head(p)], Tail(p))

StartsWithKeyword(s) ==
    \A i \in 1..Len(hostLabelKeyword) : i <= Len(s) /\ s[i] = hostLabelKeyword[i]

FirstColon(s, i) ==
    /\ i \in 1..Len(s)
    /\ s[i] = ":"
    /\ \A j \in 1..(i - 1) : s[j] # ":"

\* t is r without the spaces around it
IsTrimOf(t, r) ==
    \E a, b \in 0..Len(r) :
        /\ a + b <= Len(r)
        /\ t = SubSeq(r, a + 1, Len(r) - b)
        /\ \A j \in 1..a : r[j] = " "
        /\ \A j \in (Len(r) - b + 1)..Len(r) : r[j] = " "
        /\ t = <<>> \/ (t[1] # " " /\ t[Len(t)] # " ")

Pieces(r) == {SubSeq(r, a, b) : a \in 1..(Len(r) + 1), b \in 0..Len(r)}

\* out is what the keyword string s stands for on host h
Resolves(s, h, out) ==
    IF \E i \in 1..Len(s) : FirstColon(s, i)
    THEN \E i \in 1..Len(s) : \E label \in Pieces(s) :
            /\ FirstColon(s, i)
            /\ IsTrimOf(label, SubSeq(s, i + 1, Len(s)))
            /\ out = IF label \in DOMAIN h.Labels /\ h.Labels[label] # <<>>
                     THEN h.Labels[label]
                     ELSE <<>>
    ELSE out = <<>>

\* C6: substitution keeps the key set of every mapping, replaces every
\* keyword string under a mapping by the non-empty value of the host label
\* named after the first ':' (trimmed), or by "" when the label is missing
\* or empty or there is no ':', and leaves every other leaf, and a top-level
\* node that is not a mapping, as it was.
C6_Substitution ==
    pc \in {"updated", "updatedTwice"} =>
        /\ Paths(once) = Paths(given)
        /\ \A p \in Paths(given) :
              LET a == At(given, p)
                  b == At(once, p)
              IN  IF a.t = "map"
                  THEN b.t = "map" /\ DOMAIN b.v = DOMAIN a.v
                  ELSE IF a.t = "str" /\ p # <<>> /\ StartsWithKeyword(a.v)
                  THEN b.t = "str" /\ Resolves(a.v, host, b.v)
                  ELSE b = a

\* a nested keyword leaf with spaces around the label name got the label's value
C6_Witness ==
    /\ pc = "updated"
    /\ \E p \in Paths(given) :
          /\ Len(p) >= 2
          /\ At(given, p) = Str(hostLabelKeyword \o <<":", " ", "a">>)
          /\ At(once, p) = Str(<<"v">>)
    /\ \E p \in Paths(given) : At(given, p).t = "num"

NoKeywordInLabels ==
    \A l \in DOMAIN host.Labels : ~StartsWithKeyword(host.Labels[l])

\* C7 as stated: for every tree and every host, substituting twice gives
\* what substituting once gives.
C7_Idempotent_Any ==
    pc = "updatedTwice" => twice = once

\* C7 amended: for every tree and every host none of whose label values
\* starts with the keyword, substituting twice gives what substituting once
\* gives.
C7_Idempotent ==
    (pc = "updatedTwice" /\ NoKeywordInLabels) => twice = once

\* a keyword leaf was replaced by a label value and the second pass kept it
C7_Witness ==
    /\ pc = "updatedTwice"
    /\ NoKeywordInLabels
    /\ once # given
    /\ \E p \in Paths(given) :
          /\ At(given, p).t = "str"
          /\ StartsWithKeyword(At(given, p).v)
          /\ At(once, p) = Str(<<"v">>)
          /\ At(twice, p) = Str(<<"v">>)

----------------------------------------------------------------------------
(* GetBridgeInfo *)

Digit == <<"1", "2", "3", "4">>
FileName == <<"f1", "f2", "f3", "f4">>

LabelT == <<"t">>

\* a file of a cniConfig: type rancher-bridge, missing, or a keyword string
\* that stands for rancher-bridge on BridgeHost; bridge missing, empty or
\* the file's own; bridgeSubnet missing or the file's own
FileFields(i) ==
    {[type |-> ty, bridge |-> br, bridgeSubnet |-> sn] :
        ty \in {Str(RancherBridge), Nil, Str(hostLabelKeyword \o <<":", "t">>)},
        br \in {Nil, Str(<<>>), Str(<<"b", Digit[i]>>)},
        sn \in {Nil, Str(<<"s", Digit[i]>>)}}
    \cup {[type |-> Str(RancherBridge), bridge |-> Num(7), bridgeSubnet |-> Num(7)]}

\* the mapping with the fields that are present
FileNode(r) ==
    Map([k \in {x \in {"type", "bridge", "bridgeSubnet"} : r[x] # Nil} |-> r[k]])

FileNodes(i) == {FileNode(r) : r \in FileFields(i)} \cup {Str(<<"s", Digit[i]>>)}

CniConfigs ==
    UNION {{Map(f) : f \in {g \in [{FileName[i] : i \in 1..n} -> UNION {FileNodes(i) : i \in 1..n}] :
                              \A i \in 1..n : g[FileName[i]] \in FileNodes(i)}} :
           n \in 1..MaxFiles}

BridgeNetworks ==
    {[UUID |-> "n1", EnvironmentUUID |-> "e1", Metadata |-> [k \in {"cniConfig"} |-> c]] :
        c \in CniConfigs \cup {Map(<<>>), Str(<<"x">>)}}
    \cup {NoNetwork}

BridgeHost == Host([l \in {LabelT, LabelA} |-> IF l = LabelT THEN RancherBridge ELSE <<"v">>])

\* line 49: conf, _ := network.Metadata["cniConfig"].(map[string]interface{})
Conf(nw) == AsMap(Lookup(nw.Metadata, "cniConfig"))

\* mutant: the bridge name is not tested
BridgeFound_TypeOnly(cniType, checkBridge) == cniType = RancherBridge

\* line 57
BridgeFound(cniType, checkBridge) ==
    cniType = RancherBridge /\ checkBridge # <<>>

\* mutant: bridgeSubnet is kept when the file carries none
FileSubnet_Sticky(props, current) ==
    IF Lookup(props, "bridgeSubnet").t = "str"
    THEN Lookup(props, "bridgeSubnet").v
    ELSE current

\* line 55: bridgeSubnet, _ = props["bridgeSubnet"].(string)
FileSubnet(props, current) == AsString(Lookup(props, "bridgeSubnet"))

InitBridge ==
    /\ pc = "range"
    /\ network \in BridgeNetworks
    /\ given = network
    /\ host = BridgeHost
    /\ remaining = DOMAIN Conf(network)
    /\ iterated = <<>>
    /\ bridge = <<>>
    /\ bridgeSubnet = <<>>
    /\ config = Nil
    /\ once = Nil
    /\ twice = Nil
    /\ networks = <<>>
    /\ services = <<>>
    /\ calls = <<>>
    /\ ret = NoRet

\* lines 50-60: one iteration of the range loop, on whichever file the map
\* iteration yields next
Visit ==
    /\ pc = "range"
    /\ \E name \in remaining :
        LET file == UpdateCNIConfigByKeywords(Conf(network)[name], host)
            props == AsMap(file)
            cniType == AsString(Lookup(props, "type"))
            checkBridge == AsString(Lookup(props, "bridge"))
        IN  /\ network' = [network EXCEPT !.Metadata["cniConfig"].v[name] = file]
            /\ bridgeSubnet' = FileSubnet(props, bridgeSubnet)
            /\ remaining' = remaining \ {name}
            /\ iterated' = Append(iterated, name)
            /\ IF BridgeFound(cniType, checkBridge)
               THEN bridge' = checkBridge /\ pc' = "return"
               ELSE bridge' = bridge /\ pc' = "range"
    /\ UNCHANGED <<networks, host, services, calls, ret, config, once, twice, given>>

\* the range loop ends when every file was visited
RangeDone ==
    /\ pc = "range"
    /\ remaining = {}
    /\ pc' = "return"
    /\ UNCHANGED <<networks, host, services, calls, ret, config, once, twice,
                   network, remaining, iterated, bridge, bridgeSubnet, given>>

\* line 62
ReturnBridge ==
    /\ pc = "return"
    /\ pc' = "returned"
    /\ UNCHANGED <<networks, host, services, calls, ret, config, once, twice,
                   network, remaining, iterated, bridge, bridgeSubnet, given>>

NextBridge == Visit \/ RangeDone \/ ReturnBridge

SpecBridge == InitBridge /\ [][NextBridge]_vars

\* the string field key of file name as GetBridgeInfo reads it: after
\* substitution, "" when missing or not a string
Field(name, key) ==
    LET node == UpdateCNIConfigByKeywords(Conf(given)[name], host)
    IN  IF node.t = "map" /\ key \in DOMAIN node.v /\ node.v[key].t = "str"
        THEN node.v[key].v
        ELSE <<>>

IsBridgeFile(name) ==
    Field(name, "type") = RancherBridge /\ Field(name, "bridge") # <<>>

BridgeFiles == {name \in DOMAIN Conf(given) : IsBridgeFile(name)}

\* C8: when some file is a bridge file, the first bridge file iterated
\* is the last file iterated, and the call returns its bridge and its
\* bridgeSubnet; with exactly one bridge file the pair is that file's in
\* every iteration order.
C8_FirstBridgeFile ==
    (pc = "returned" /\ BridgeFiles # {}) =>
        /\ \E i \in 1..Len(iterated) :
              /\ IsBridgeFile(iterated[i])
              /\ \A j \in 1..(i - 1) : ~IsBridgeFile(iterated[j])
              /\ i = Len(iterated)
              /\ bridge = Field(iterated[i], "bridge")
              /\ bridgeSubnet = Field(iterated[i], "bridgeSubnet")
        /\ \A name \in BridgeFiles :
              BridgeFiles = {name} =>
                  /\ bridge = Field(name, "bridge")
                  /\ bridgeSubnet = Field(name, "bridgeSubnet")

\* a file with another subnet was iterated before the bridge file, whose
\* type was a keyword string standing for rancher-bridge
C8_Witness ==
    /\ pc = "returned"
    /\ Len(iterated) >= 2
    /\ IsBridgeFile(iterated[Len(iterated)])
    /\ Conf(given)[iterated[Len(iterated)]].v["type"] # Str(RancherBridge)
    /\ Field(iterated[1], "bridgeSubnet") # <<>>
    /\ Field(iterated[1], "bridgeSubnet") # bridgeSubnet
    /\ bridgeSubnet # <<>>
    /\ bridge # <<>>

\* the bridgeSubnet of the last iterated file that carries one, "" if none does
RECURSIVE LastSeenSubnet(_)
LastSeenSubnet(names) ==
    IF names = <<>> THEN <<>>
    ELSE IF Field(names[Len(names)], "bridgeSubnet") # <<>>
    THEN Field(names[Len(names)], "bridgeSubnet")
    ELSE LastSeenSubnet(SubSeq(names, 1, Len(names) - 1))

\* C9 as stated: with no bridge file (or no cniConfig mapping) the bridge
\* name is empty and bridgeSubnet is the bridgeSubnet most recently seen
\* among the files iterated, "" when no file carried one.
C9_LastSeenSubnet ==
    (pc = "returned" /\ BridgeFiles = {}) =>
        /\ bridge = <<>>
        /\ bridgeSubnet = LastSeenSubnet(iterated)

\* C9 amended: with no bridge file (or no cniConfig mapping) every file is
\* iterated, the bridge name is empty and bridgeSubnet is the bridgeSubnet
\* of the file iterated last, "" when that file carries none or when there
\* is no file.
C9_LastFileSubnet ==
    (pc = "returned" /\ BridgeFiles = {}) =>
        /\ bridge = <<>>
        /\ remaining = {}
        /\ bridgeSubnet = IF iterated = <<>> THEN <<>>
                          ELSE Field(iterated[Len(iterated)], "bridgeSubnet")

\* no bridge file, an earlier file carried a subnet, the last one none
C9_Witness ==
    /\ pc = "returned"
    /\ BridgeFiles = {}
    /\ Len(iterated) >= 2
    /\ Field(iterated[1], "bridgeSubnet") # <<>>
    /\ Field(iterated[Len(iterated)], "bridgeSubnet") = <<>>
    /\ bridgeSubnet = <<>>

----------------------------------------------------------------------------
(* GetLocalNetworksAndRouters *)

\* the zero value of metadata.Service (line 70)
ZeroService ==
    [UUID |-> "", StackUUID |-> "", Kind |-> "", Name |-> "",
     PrimaryServiceName |-> "", Containers |-> <<>>]

IsDriverKind(service) == service.Kind = NetworkDriverService

IsCniDriver(service) == service.Name = CniDriver

\* lines 74-78
UnfilteredCniDriverServices(svcs) == SelectSeq(svcs, IsDriverKind)

\* mutant: no fallback filter on the name
CniDriverServices_Unfiltered(svcs) == UnfilteredCniDriverServices(svcs)

\* lines 80-90
CniDriverServices(svcs) ==
    LET unfiltered == UnfilteredCniDriverServices(svcs)
    IN  IF Len(unfiltered) # 1
        THEN SelectSeq(unfiltered, IsCniDriver)
        ELSE unfiltered

\* mutant: resolution only with exactly one driver
HasDriver_ExactlyOne(cniDriverServices) == Len(cniDriverServices) = 1

\* line 97
HasDriver(cniDriverServices) == Len(cniDriverServices) > 0

\* mutant: the driver itself is not excluded
IsPrimaryOfStack_AnyUUID(service, driver) ==
    /\ service.StackUUID = driver.StackUUID
    /\ service.Name = service.PrimaryServiceName

\* lines 100-102
IsPrimaryOfStack(service, driver) ==
    /\ service.StackUUID = driver.StackUUID
    /\ service.UUID # driver.UUID
    /\ service.Name = service.PrimaryServiceName

\* lines 99-106: the first match, the zero value when there is none
RECURSIVE FirstPrimary(_, _, _)
FirstPrimary(svcs, driver, i) ==
    IF i > Len(svcs) THEN ZeroService
    ELSE IF IsPrimaryOfStack(svcs[i], driver) THEN svcs[i]
    ELSE FirstPrimary(svcs, driver, i + 1)

\* lines 97-107
NetworkService(svcs) ==
    LET cniDriverServices == CniDriverServices(svcs)
    IN  IF HasDriver(cniDriverServices)
        THEN FirstPrimary(svcs, cniDriverServices[1], 1)
        ELSE ZeroService

\* mutant: an entry already present is kept
PutRouter_KeepFirst(localRouters, aContainer) ==
    IF aContainer.NetworkUUID \in DOMAIN localRouters
    THEN localRouters
    ELSE [k \in DOMAIN localRouters \cup {aContainer.NetworkUUID} |->
            IF k = aContainer.NetworkUUID THEN aContainer ELSE localRouters[k]]

\* line 111: localRouters[aContainer.NetworkUUID] = aContainer
PutRouter(localRouters, aContainer) ==
    [k \in DOMAIN localRouters \cup {aContainer.NetworkUUID} |->
        IF k = aContainer.NetworkUUID THEN aContainer ELSE localRouters[k]]

\* lines 109-113, from container i on
RECURSIVE LocalRouters(_, _, _, _)
LocalRouters(containers, h, i, localRouters) ==
    IF i > Len(containers) THEN localRouters
    ELSE LocalRouters(containers, h, i + 1,
            IF containers[i].HostUUID = h.UUID
            THEN PutRouter(localRouters, containers[i])
            ELSE localRouters)

\* mutant: the environment is not compared
IsLocalNetwork_AnyEnvironment(aNetwork, h, localRouters) ==
    /\ Lookup(aNetwork.Metadata, "cniConfig").t = "map"
    /\ aNetwork.UUID \in DOMAIN localRouters

\* lines 117-130: the network passes the three tests
IsLocalNetwork(aNetwork, h, localRouters) ==
    /\ aNetwork.EnvironmentUUID = h.EnvironmentUUID
    /\ Lookup(aNetwork.Metadata, "cniConfig").t = "map"
    /\ aNetwork.UUID \in DOMAIN localRouters

\* lines 115-133
RECURSIVE LocalNetworks(_, _, _, _)
LocalNetworks(nws, h, localRouters, i) ==
    IF i > Len(nws) THEN <<>>
    ELSE (IF IsLocalNetwork(nws[i], h, localRouters) THEN <<nws[i]>> ELSE <<>>)
         \o LocalNetworks(nws, h, localRouters, i + 1)

GetLocalNetworksAndRouters(nws, h, svcs) ==
    LET networkService == NetworkService(svcs)
        localRouters == LocalRouters(networkService.Containers, h, 1, <<>>)
    IN  [networks |-> LocalNetworks(nws, h, localRouters, 1),
         routers |-> localRouters]

----------------------------------------------------------------------------
(* Snapshots *)

Index == <<"1", "2", "3", "4">>
ServiceUUID == <<"u1", "u2", "u3", "u4">>
ContainerUUID == <<"c1", "c2", "c3", "c4">>
OwnContainerUUID == <<"r1", "r2", "r3", "r4">>

LocalHost == Host(<<>>)

CniNetwork(uuid, env, cni) ==
    [UUID |-> uuid, EnvironmentUUID |-> env,
     Metadata |-> IF cni = Nil THEN <<>> ELSE [k \in {"cniConfig"} |-> cni]]

SomeCniConfig == Map([f \in {"f1"} |-> FileNode([type |-> Str(RancherBridge),
                                                  bridge |-> Str(<<"b", "1">>),
                                                  bridgeSubnet |-> Nil])])

NetworkChoices ==
    {CniNetwork(u, e, c) : u \in {"n1", "n2"}, e \in {"e1", "e2"},
                           c \in {SomeCniConfig, Str(<<"x">>), Nil}}

NetworkSeqs(n) == SeqsUpTo(NetworkChoices, n)

\* containers with their UUID given by their place
ContainerSeqs(n) ==
    UNION {{[i \in 1..k |-> [UUID |-> ContainerUUID[i], HostUUID |-> f[i][1],
                             NetworkUUID |-> f[i][2]]] :
              f \in [1..k -> {"h1", "h2"} \X {"n1", "n2"}]} : k \in 0..n}

\* the i-th service: UUID by its place, one container on the local host
\* and one elsewhere, both its own
ServiceAt(i, kind, name, primary, stack) ==
    [UUID |-> ServiceUUID[i], StackUUID |-> stack, Kind |-> kind, Name |-> name,
     PrimaryServiceName |-> primary,
     Containers |-> <<[UUID |-> OwnContainerUUID[i], HostUUID |-> "h1", NetworkUUID |-> "n1"],
                      [UUID |-> OwnContainerUUID[i], HostUUID |-> "h2", NetworkUUID |-> "n2"]>>]

ServiceShapes ==
    {NetworkDriverService, "service"} \X {CniDriver, "ipsec"}
        \X {CniDriver, "ipsec"} \X {"s1", "s2"}

ServiceSeqs(n) ==
    UNION {{[i \in 1..k |-> ServiceAt(i, f[i][1], f[i][2], f[i][3], f[i][4])] :
              f \in [1..k -> ServiceShapes]} : k \in 0..n}

\* a driver and the primary service of its stack, with the given containers
PluginStack(containers) ==
    <<ServiceAt(1, NetworkDriverService, CniDriver, "ipsec", "s1"),
      [ServiceAt(2, "service", "ipsec", "ipsec", "s1") EXCEPT !.Containers = containers]>>

TwoNetworks ==
    <<CniNetwork("n1", "e1", SomeCniConfig), CniNetwork("n2", "e1", SomeCniConfig)>>

Idle ==
    /\ config = Nil
    /\ once = Nil
    /\ twice = Nil
    /\ network = NoNetwork
    /\ given = NoNetwork
    /\ remaining = {}
    /\ iterated = <<>>
    /\ bridge = <<>>
    /\ bridgeSubnet = <<>>

----------------------------------------------------------------------------
(* GetLocalNetworksAndRouters applied to a snapshot *)

InitResolve ==
    /\ pc = "resolve"
    /\ host = LocalHost
    /\ \/ /\ services \in ServiceSeqs(MaxServices)
          /\ networks = TwoNetworks
       \/ /\ services \in {PluginStack(c) : c \in ContainerSeqs(MaxContainers)}
          /\ networks \in NetworkSeqs(MaxNetworks)
    /\ calls = <<>>
    /\ ret = NoRet
    /\ Idle

Resolve ==
    /\ pc = "resolve"
    /\ LET r == GetLocalNetworksAndRouters(networks, host, services)
       IN  ret' = [networks |-> r.networks, routers |-> r.routers,
                   err |-> "nil", isNil |-> FALSE]
    /\ pc' = "resolved"
    /\ UNCHANGED <<networks, host, services, calls, config, once, twice, network,
                   remaining, iterated, bridge, bridgeSubnet, given>>

NextResolve == Resolve

SpecResolve == InitResolve /\ [][NextResolve]_vars

----------------------------------------------------------------------------
(* The resolution described over positions in the input sequences *)

Min(S) == CHOOSE x \in S : \A y \in S : x <= y
Max(S) == CHOOSE x \in S : \A y \in S : y <= x
Rank(i, S) == Cardinality({j \in S : j <= i})

\* seq without its j-th element
Remove(seq, j) == [i \in 1..(Len(seq) - 1) |-> IF i < j THEN seq[i] ELSE seq[i + 1]]

\* seq is the elements of from at the positions S, in order
IsSubsequenceAt(seq, from, S) ==
    /\ Len(seq) = Cardinality(S)
    /\ \A i \in S : seq[Rank(i, S)] = from[i]

DriverIdx == {i \in 1..Len(services) : services[i].Kind = "networkDriverService"}

KeptIdx ==
    IF Cardinality(DriverIdx) = 1
    THEN DriverIdx
    ELSE {i \in DriverIdx : services[i].Name = "cni-driver"}

PrimaryIdx(d) ==
    {j \in 1..Len(services) :
        /\ services[j].StackUUID = d.StackUUID
        /\ services[j].UUID # d.UUID
        /\ services[j].Name = services[j].PrimaryServiceName}

NetIdx == IF KeptIdx = {} THEN {} ELSE PrimaryIdx(services[Min(KeptIdx)])

NetContainers == IF NetIdx = {} THEN <<>> ELSE services[Min(NetIdx)].Containers

LocalIdx(cs) == {i \in 1..Len(cs) : cs[i].HostUUID = host.UUID}

Returned == [networks |-> ret.networks, routers |-> ret.routers]

\* C2: localNetworks is the subsequence, in input order, of the networks
\* of the host's environment whose cniConfig is a mapping and whose UUID
\* is a key of the returned localRouters; none of another environment.
C2_LocalNetworks ==
    pc = "resolved" =>
        /\ IsSubsequenceAt(ret.networks, networks,
              {i \in 1..Len(networks) :
                  /\ networks[i].EnvironmentUUID = host.EnvironmentUUID
                  /\ "cniConfig" \in DOMAIN networks[i].Metadata
                  /\ networks[i].Metadata["cniConfig"].t = "map"
                  /\ networks[i].UUID \in DOMAIN ret.routers})
        /\ \A i \in 1..Len(ret.networks) :
              ret.networks[i].EnvironmentUUID = host.EnvironmentUUID

\* a network of another environment with a cniConfig mapping and a router
\* entry was left out, and a later one kept
C2_Witness ==
    /\ pc = "resolved"
    /\ Len(networks) = 2
    /\ networks[1].EnvironmentUUID # host.EnvironmentUUID
    /\ Lookup(networks[1].Metadata, "cniConfig").t = "map"
    /\ networks[1].UUID \in DOMAIN ret.routers
    /\ ret.networks = <<networks[2]>>

\* the driver services kept: the only one of the kind, else those named cni-driver
DriversKept ==
    IsSubsequenceAt(CniDriverServices(services), services, KeptIdx)

C4_NetworkService ==
    (pc = "resolved" /\ KeptIdx # {}) =>
        IF NetIdx # {}
        THEN LET cs == services[Min(NetIdx)].Containers
             IN  /\ DOMAIN ret.routers = {cs[i].NetworkUUID : i \in LocalIdx(cs)}
                 /\ \A k \in DOMAIN ret.routers :
                       \E i \in LocalIdx(cs) : ret.routers[k] = cs[i]
        ELSE ret.routers = <<>> /\ ret.networks = <<>>

\* the driver is its own stack's primary, and of two other primaries of
\* the stack the first one gave the router
C4_Witness ==
    /\ pc = "resolved"
    /\ Len(services) = 3
    /\ KeptIdx = {1}
    /\ services[1].Name = services[1].PrimaryServiceName
    /\ NetIdx = {2, 3}
    /\ ret.routers["n1"].UUID = services[2].Containers[1].UUID

\* C5: localRouters has the key k exactly when a container of the network
\* service on the host has NetworkUUID k, and holds under k the last such
\* container; no value is a container of another host.
C5_LastWriteWins ==
    pc = "resolved" =>
        LET cs == NetContainers
        IN  /\ DOMAIN ret.routers = {cs[i].NetworkUUID : i \in LocalIdx(cs)}
            /\ \A k \in DOMAIN ret.routers :
                  /\ ret.routers[k] =
                        cs[Max({i \in LocalIdx(cs) : cs[i].NetworkUUID = k})]
                  /\ ret.routers[k].HostUUID = host.UUID

\* two containers of one network on the host: the second is the router
C5_Witness ==
    /\ pc = "resolved"
    /\ Len(NetContainers) = 2
    /\ LocalIdx(NetContainers) = {1, 2}
    /\ NetContainers[1].NetworkUUID = NetContainers[2].NetworkUUID
    /\ ret.routers[NetContainers[1].NetworkUUID] = NetContainers[2]

\* every container on the host of the first primary service of d's stack
\* has its network as a key of localRouters, holding a container of that service
ResolvedFor(d) ==
    PrimaryIdx(d) # {} =>
        LET cs == services[Min(PrimaryIdx(d))].Containers
        IN  \A i \in LocalIdx(cs) :
              /\ cs[i].NetworkUUID \in DOMAIN ret.routers
              /\ \E j \in LocalIdx(cs) : ret.routers[cs[i].NetworkUUID] = cs[j]

----------------------------------------------------------------------------
(* GetLocalNetworksAndRoutersFromMetadata *)

\* what a fetch of the metadata client may return as its error
Errors == {"errA", "errB"}

\* mutant: the error is replaced, not passed through
ErrorReturn_Replaced(err) ==
    [networks |-> <<>>, routers |-> <<>>, err |-> "errA", isNil |-> TRUE]

\* lines 143, 148, 153: return nil, nil, err
ErrorReturn(err) ==
    [networks |-> <<>>, routers |-> <<>>, err |-> err, isNil |-> TRUE]

Init ==
    /\ pc = "GetNetworks"
    /\ host = LocalHost
    /\ services \in {PluginStack(c) : c \in ContainerSeqs(MaxMeta)}
    /\ networks \in NetworkSeqs(MaxMeta)
    /\ calls = <<>>
    /\ ret = NoRet
    /\ Idle

\* one fetch: the client answers with an error or without; on an error
\* the function returns, else it goes on to the step next
Fetch(op, next) ==
    /\ pc = op
    /\ \E err \in Errors \cup {"nil"} :
          /\ calls' = Append(calls, [op |-> op, err |-> err])
          /\ IF err # "nil"
             THEN ret' = ErrorReturn(err) /\ pc' = "done"
             ELSE ret' = ret /\ pc' = next
    /\ UNCHANGED <<networks, host, services, config, once, twice, network,
                   remaining, iterated, bridge, bridgeSubnet, given>>

\* lines 141-144
GetNetworks == Fetch("GetNetworks", "GetSelfHost")

\* lines 146-149
GetSelfHost == Fetch("GetSelfHost", "GetServices")

\* lines 151-154
GetServices == Fetch("GetServices", "GetLocalNetworksAndRouters")

\* lines 156-158
ResolveFetched ==
    /\ pc = "GetLocalNetworksAndRouters"
    /\ calls' = Append(calls, [op |-> "GetLocalNetworksAndRouters", err |-> "nil"])
    /\ LET r == GetLocalNetworksAndRouters(networks, host, services)
       IN  ret' = [networks |-> r.networks, routers |-> r.routers,
                   err |-> "nil", isNil |-> FALSE]
    /\ pc' = "done"
    /\ UNCHANGED <<networks, host, services, config, once, twice, network,
                   remaining, iterated, bridge, bridgeSubnet, given>>

Next == GetNetworks \/ GetSelfHost \/ GetServices \/ ResolveFetched

Spec == Init /\ [][Next]_vars

CallOrder == <<"GetNetworks", "GetSelfHost", "GetServices", "GetLocalNetworksAndRouters">>

\* C1: the calls are GetNetworks, GetSelfHost, GetServices and the
\* resolver, each at most once and in that order; a fetch that fails is
\* the last call, the function has then returned exactly its error with
\* nil networks and nil routers, and the resolver has not run; the
\* function returns without an error only after all four.
C1_FailFast ==
    /\ Len(calls) <= Len(CallOrder)
    /\ \A i \in 1..Len(calls) :
          /\ calls[i].op = CallOrder[i]
          /\ calls[i].err # "nil" =>
                /\ i <= 3
                /\ i = Len(calls)
                /\ pc = "done"
                /\ ret = [networks |-> <<>>, routers |-> <<>>,
                           err |-> calls[i].err, isNil |-> TRUE]
    /\ (pc = "done" /\ ret.err = "nil") =>
          /\ Len(calls) = Len(CallOrder)
          /\ ~ret.isNil
          /\ \A i \in 1..Len(calls) : calls[i].err = "nil"
    /\ pc # "done" => ret = NoRet /\ \A i \in 1..Len(calls) : calls[i].err = "nil"

\* GetSelfHost failed after GetNetworks succeeded, on a snapshot that
\* resolves to a router
C1_Witness ==
    /\ pc = "done"
    /\ Len(calls) = 2
    /\ calls[1].err = "nil"
    /\ calls[2] = [op |-> "GetSelfHost", err |-> "errB"]
    /\ ret.err = "errB"
    /\ ret.isNil
    /\ GetLocalNetworksAndRouters(networks, host, services).routers # <<>>

====
